---- MODULE Spec2Model ----
(***************************************************************************)
(* A model of yet_another_stalker_unpacker: the chunk-oriented archive     *)
(* header parser (archive_reader.rs, archive_header.rs) and the            *)
(* orchestration in main.rs (header loading, merge, directory creation,    *)
(* extraction).                                                            *)
(*                                                                         *)
(* Archives are modelled as byte sequences; every parser below works on    *)
(* the bytes as the Rust code does.  32-bit fields are kept below 2^31 in  *)
(* the archives that are enumerated (the flag bit of a chunk id is read    *)
(* from the top byte).  Text is ASCII, plus the byte 0xFF that no UTF-8    *)
(* text contains.                                                          *)
(*                                                                         *)
(* Specifications:                                                         *)
(*   SpecDecoder  read_file_descriptors, one record per step               *)
(*   SpecLoader   ArchiveReader::read_archive_header, one chunk per step   *)
(*   Spec         main: read_headers, merge, directories, extraction       *)
(*   SpecPool     the bounded JoinSet of main with more tasks than permits *)
(*   SpecUnpack   unpack_file, call by call, for two concurrent tasks      *)
(***************************************************************************)
EXTENDS Integers, Sequences, FiniteSets, TLC

VARIABLES
    \* ---- read_file_descriptors (archive_header.rs) ----
    dbuf,       \* the chunk payload handed to the decoder
    dst,        \* decoder state: [pos, files, pc, err]
    drecs,      \* the records the payload was built from (input description)
    dtail,      \* how many bytes of one more record the payload ends with
    dn          \* loop iterations started so far

decVars == <<dbuf, dst, drecs, dtail, dn>>

VARIABLES
    \* ---- ArchiveReader::read_archive_header (archive_reader.rs) ----
    lfile,      \* the bytes of the archive file being read
    lst,        \* loader state: [pos, file_descriptors, root_path, pc, err]
    lchunks,    \* the chunks the file was built from (input description)
    ltail,      \* how many bytes of one more chunk the file ends with
    ln          \* loop iterations started so far

loaderVars == <<lfile, lst, lchunks, ltail, ln>>

VARIABLES
    \* ---- main (main.rs) ----
    files,            \* the archive paths, in input order
    sequential,       \* args.sequential
    pc,               \* where main is
    hdr,              \* read_headers, parallel: the state of the task of each archive
    slots,            \* read_headers, parallel: the output of the task of each archive
    completed,        \* read_headers, parallel: the tasks in the order they completed
    archive_headers,  \* the vector read_headers builds and returns
    files_and_dirs,   \* the merged table: name -> [archive, desc]
    dirs,             \* create_directory_structure: the sorted vector dirs
    ndirs,            \* create_directory_structure: create_dir calls made
    fsDirs,           \* the directories that exist below the output directory
    task,             \* the state of the extraction task of each extracted entry
    failed            \* the entries whose unpack_file panicked

mainVars == <<files, sequential, pc, hdr, slots, completed, archive_headers,
              files_and_dirs, dirs, ndirs, fsDirs, task, failed>>

VARIABLES
    \* ---- the bounded JoinSet of the parallel extraction, by task counts ----
    pool              \* [entries, spawned, queued, running, finished, joined, pc]

poolVars == <<pool>>

VARIABLES
    \* ---- unpack_file (main.rs), for the tasks that run at the same time ----
    uarch,            \* the bytes of the archive the tasks extract from
    udesc,            \* the FileDescriptor of each task
    udest0,           \* the destination file of each task before the run
    udest,            \* the destination file of each task: [exists, data]
    upos,             \* the position of each open read handle onto the archive
    ut                \* the state of each task: [pc, remaining, buf, got, out, dpos, wrote, err]

unpackVars == <<uarch, udesc, udest0, udest, upos, ut>>

vars == <<decVars, loaderVars, mainVars, poolVars, unpackVars>>

-----------------------------------------------------------------------------
(* Little-endian integers and stream primitives                            *)

Min(a, b) == IF a < b THEN a ELSE b

LE16(n) == <<n % 256, (n \div 256) % 256>>

LE32(n) == <<n % 256, (n \div 256) % 256, (n \div 65536) % 256, (n \div 16777216) % 256>>

\* bytes left to read at position pos (a position past the end reads nothing)
Avail(buf, pos) == IF Len(buf) > pos THEN Len(buf) - pos ELSE 0

U16At(buf, pos) == buf[pos + 1] + 256 * buf[pos + 2]

U32At(buf, pos) ==
    buf[pos + 1] + 256 * buf[pos + 2] + 65536 * buf[pos + 3] + 16777216 * buf[pos + 4]

Bytes(buf, pos, n) == SubSeq(buf, pos + 1, pos + n)

RECURSIVE Concat(_)
Concat(ss) == IF ss = <<>> THEN <<>> ELSE Head(ss) \o Concat(Tail(ss))

\* encoding.decode_without_bom_handling for the default utf-8 label, on the
\* alphabet used here: ASCII bytes decode to themselves, 0x80..0xFF do not decode.
DecodeText(bytes) ==
    [text |-> bytes, had_errors |-> \E i \in 1..Len(bytes) : bytes[i] >= 128]

-----------------------------------------------------------------------------
(* archive_header.rs: FileDescriptor and read_file_descriptors             *)

ELEMENTS_SIZE == 16

MAX_PATH == 260

NameBufLen == MAX_PATH * 2

FileDescriptor(name, offset, real_size, compressed_size, crc) ==
    [name |-> name, offset |-> offset, real_size |-> real_size,
     compressed_size |-> compressed_size, crc |-> crc]

\* HashMap::insert: the new value replaces an existing one for the key
MapInsert(m, k, v) == [x \in (DOMAIN m) \cup {k} |-> IF x = k THEN v ELSE m[x]]

EmptyMap == [x \in {} |-> 0]

DecPanic(st, msg) == [st EXCEPT !.pc = "panic", !.err = msg]

\* the assertion that guards the copy of the name into name_buf
NameFits(name_size) == name_size < NameBufLen

DecoderInit == [pos |-> 0, files |-> EmptyMap, pc |-> "loop", err |-> ""]

\* One iteration of the loop of read_file_descriptors.
DecoderStep(buf, st) ==
    IF Avail(buf, st.pos) < 2
    THEN [st EXCEPT !.pc = "ok"]                       \* UnexpectedEof => break
    ELSE
    LET header_size == U16At(buf, st.pos)
        p1 == st.pos + 2
        \* u16 subtraction: a debug build panics on underflow, a release build
        \* wraps and the assertion below fails: a panic either way
        name_size == (header_size + 65536 - ELEMENTS_SIZE) % 65536
        p2 == p1 + 12
        p3 == p2 + name_size
    IN  IF Avail(buf, p1) < 12
        THEN DecPanic(st, "unwrap: failed to fill whole buffer")
        ELSE IF header_size < ELEMENTS_SIZE \/ ~NameFits(name_size)
        THEN DecPanic(st, "Name is too long")
        ELSE IF Avail(buf, p2) < name_size
        THEN DecPanic(st, "Unable to read file name from header")
        ELSE IF Avail(buf, p3) < 4
        THEN DecPanic(st, "unwrap: failed to fill whole buffer")
        ELSE
        LET dec == DecodeText(Bytes(buf, p2, name_size))
            desc == FileDescriptor(dec.text, U32At(buf, p3), U32At(buf, p1),
                                   U32At(buf, p1 + 4), U32At(buf, p1 + 8))
        IN  IF dec.had_errors
            THEN DecPanic(st, "Had errors decoding file name")
            ELSE [st EXCEPT !.pos = p3 + 4,
                            !.files = MapInsert(st.files, dec.text, desc)]

RECURSIVE DecoderRun(_, _)
DecoderRun(buf, st) ==
    IF st.pc # "loop" THEN st ELSE DecoderRun(buf, DecoderStep(buf, st))

\* read_file_descriptors: [ok, files]; ok = FALSE stands for a panic
read_file_descriptors(buf) ==
    LET st == DecoderRun(buf, DecoderInit)
    IN  [ok |-> st.pc = "ok", files |-> st.files, err |-> st.err]

-----------------------------------------------------------------------------
(* File-table payloads: the record layout read above, written out          *)

EncodeRecord(r) ==
    LE16(ELEMENTS_SIZE + Len(r.name)) \o LE32(r.real_size) \o LE32(r.compressed_size)
        \o LE32(r.crc) \o r.name \o LE32(r.offset)

EncodeTable(recs) == Concat([i \in 1..Len(recs) |-> EncodeRecord(recs[i])])

RECURSIVE SeqsUpTo(_, _)
SeqsUpTo(S, n) ==
    IF n = 0 THEN {<<>>}
    ELSE LET shorter == SeqsUpTo(S, n - 1)
         IN  shorter \cup {Append(s, x) : s \in {t \in shorter : Len(t) = n - 1}, x \in S}

-----------------------------------------------------------------------------
(* archive_reader.rs: read_chunk, read_root_path, read_archive_header      *)

NoneV == [some |-> FALSE]

Some(v) == [some |-> TRUE, val |-> v]

\* Lh1Decoder (crate delharc), an external collaborator: modelled as a byte-wise
\* stream code with one trailing end marker, so that the stored and the decoded
\* lengths differ as they do for LH1.
Lh1Encode(data) == [i \in 1..Len(data) |-> (data[i] + 1) % 256] \o <<0>>

\* Lh1Decoder::fill_buffer: fails when the stream ends before n bytes are decoded
Lh1FillBuffer(comp, n) ==
    [ok |-> Len(comp) >= n,
     data |-> [i \in 1..Min(n, Len(comp)) |-> (comp[i] + 255) % 256]]

\* read_chunk: [ok, data, pos]; ok = FALSE stands for a panic (unwrap)
read_chunk(file, pos, chunk_usize, compressed) ==
    IF compressed
    THEN IF Avail(file, pos) < 4 \/ chunk_usize < 4
                \/ Avail(file, pos + 4) < chunk_usize - 4
         THEN [ok |-> FALSE, data |-> <<>>, pos |-> pos]
         ELSE LET decoded_len == U32At(file, pos)
                  res == Lh1FillBuffer(Bytes(file, pos + 4, chunk_usize - 4), decoded_len)
              IN  [ok |-> res.ok, data |-> res.data, pos |-> pos + chunk_usize]
    ELSE IF Avail(file, pos) < chunk_usize
         THEN [ok |-> FALSE, data |-> <<>>, pos |-> pos]
         ELSE [ok |-> TRUE, data |-> Bytes(file, pos, chunk_usize), pos |-> pos + chunk_usize]

\* \w and \s of the regex crate, on ASCII
IsWordChar(c) == c \in (48..57) \cup (65..90) \cup (97..122) \cup {95}

IsSpaceChar(c) == c \in {9, 10, 11, 12, 13, 32}

\* the first index k >= i at which the run of word (space) characters from i ends
SkipWord(line, i) ==
    CHOOSE k \in i..(Len(line) + 1) :
        /\ \A j \in i..(k - 1) : IsWordChar(line[j])
        /\ k = Len(line) + 1 \/ ~IsWordChar(line[k])

SkipSpace(line, i) ==
    CHOOSE k \in i..(Len(line) + 1) :
        /\ \A j \in i..(k - 1) : IsSpaceChar(line[j])
        /\ k = Len(line) + 1 \/ ~IsSpaceChar(line[k])

\* str::lines: split at \n, a \r before the \n is dropped, no empty last line
RECURSIVE Lines(_)
Lines(t) ==
    IF t = <<>> THEN <<>>
    ELSE IF \E i \in 1..Len(t) : t[i] = 10
    THEN LET nl == CHOOSE i \in 1..Len(t) : t[i] = 10 /\ \A j \in 1..(i - 1) : t[j] # 10
             raw == SubSeq(t, 1, nl - 1)
             line == IF raw # <<>> /\ raw[Len(raw)] = 13
                     THEN SubSeq(raw, 1, Len(raw) - 1) ELSE raw
         IN  <<line>> \o Lines(SubSeq(t, nl + 1, Len(t)))
    ELSE <<t>>

\* section_regex  ^.*\[(?P<name>\w*)\]$
SectionCapture(line) ==
    LET n == Len(line)
        opens == {j \in 1..(n - 1) : line[j] = 91
                      /\ \A k \in (j + 1)..(n - 1) : IsWordChar(line[k])}
    IN  IF n >= 2 /\ line[n] = 93 /\ opens # {}
        THEN Some(SubSeq(line, (CHOOSE j \in opens : TRUE) + 1, n - 1))
        ELSE NoneV

\* variable_regex  ^\s*(?P<name>\w+)\s*=\s*(?P<value>.+)\s*$
\* (.+ is greedy: the value keeps its trailing white space; when only white
\* space follows the = sign, the value is its last character)
VariableCapture(line) ==
    LET n == Len(line)
        a == SkipSpace(line, 1)
        b == SkipWord(line, a)
        c == SkipSpace(line, b)
        d == SkipSpace(line, c + 1)
    IN  IF b > a /\ c <= n /\ line[c] = 61 /\ c < n
        THEN Some([name |-> SubSeq(line, a, b - 1),
                   value |-> IF d <= n THEN SubSeq(line, d, n) ELSE <<line[n]>>])
        ELSE NoneV

\* root_regex  ^\$\w+?\$\\  replaced by the empty string
StripRoot(value) ==
    LET k == SkipWord(value, 2)
    IN  IF Len(value) >= 4 /\ value[1] = 36 /\ k > 2 /\ k + 1 <= Len(value)
              /\ value[k] = 36 /\ value[k + 1] = 92
        THEN SubSeq(value, k + 2, Len(value))
        ELSE value

SectionHeader == <<104, 101, 97, 100, 101, 114>>

KeyEntryPoint == <<101, 110, 116, 114, 121, 95, 112, 111, 105, 110, 116>>

\* the loop of read_root_path over the lines from index i on
RECURSIVE ScanLines(_, _, _)
ScanLines(lines, i, last_section_name) ==
    IF i > Len(lines) THEN NoneV
    ELSE LET section == SectionCapture(lines[i])
             variable == VariableCapture(lines[i])
         IN  IF ~section.some /\ last_section_name = SectionHeader
             THEN IF variable.some /\ variable.val.name = KeyEntryPoint
                  THEN Some(StripRoot(variable.val.value))
                  ELSE ScanLines(lines, i + 1, last_section_name)
             ELSE IF section.some
             THEN ScanLines(lines, i + 1, section.val)
             ELSE ScanLines(lines, i + 1, last_section_name)

\* read_root_path: [ok, root]; ok = FALSE stands for the panic on a decoding
\* error, root is the Option<String> returned
read_root_path(chunk_data) ==
    LET dec == DecodeText(chunk_data)
    IN  IF dec.had_errors
        THEN [ok |-> FALSE, root |-> NoneV]
        ELSE [ok |-> TRUE, root |-> ScanLines(Lines(dec.text), 1, <<>>)]

TableIds == {1, 134}

MetadataIds == {666, 1337}

\* raw_chunk_id & CHUNK_ID_MASK and raw_chunk_id & CHUNK_ID_COMPRESSED_MASK,
\* on the four little-endian bytes of raw_chunk_id
ChunkIdAt(file, pos) ==
    file[pos + 1] + 256 * file[pos + 2] + 65536 * file[pos + 3]
        + 16777216 * (file[pos + 4] % 128)

CompressedAt(file, pos) == file[pos + 4] >= 128

LoaderInit ==
    [pos |-> 0, file_descriptors |-> NoneV, root_path |-> <<>>, pc |-> "loop", err |-> ""]

LoadPanic(st, msg) == [st EXCEPT !.pc = "panic", !.err = msg]

\* the 0x1 | 0x86 arm
TableArm(file, st, chunk_usize, compressed) ==
    LET chunk == read_chunk(file, st.pos + 8, chunk_usize, compressed)
        table == read_file_descriptors(chunk.data)
    IN  IF ~chunk.ok THEN LoadPanic(st, "read_chunk")
        ELSE IF ~table.ok THEN LoadPanic(st, table.err)
        ELSE [st EXCEPT !.pos = chunk.pos, !.file_descriptors = Some(table.files)]

\* faulty variant: an absent root path taken as the empty string
RootPathOrDefault(st, pos, root) ==
    [st EXCEPT !.pos = pos, !.root_path = IF root.some THEN root.val ELSE <<>>]

\* faulty variant: a root path already found is kept
RootPathKeepFirst(st, pos, root) ==
    IF ~root.some
    THEN LoadPanic(st, "[header].entry_point must be specified in header chunk when it exists")
    ELSE IF st.root_path # <<>> THEN [st EXCEPT !.pos = pos]
    ELSE [st EXCEPT !.pos = pos, !.root_path = root.val]

\* what the 666 | 1337 arm does with the Option that read_root_path returns
RootPathOf(st, pos, root) ==
    IF root.some
    THEN [st EXCEPT !.pos = pos, !.root_path = root.val]
    ELSE LoadPanic(st, "[header].entry_point must be specified in header chunk when it exists")

\* the 666 | 1337 arm
MetadataArm(file, st, chunk_usize, compressed) ==
    LET chunk == read_chunk(file, st.pos + 8, chunk_usize, compressed)
        parsed == read_root_path(chunk.data)
    IN  IF ~chunk.ok THEN LoadPanic(st, "read_chunk")
        ELSE IF ~parsed.ok THEN LoadPanic(st, "Unable to decode header")
        ELSE RootPathOf(st, chunk.pos, parsed.root)

\* faulty variant: four bytes taken as a length prefix before the seek
SkipArmAfterPrefix(st, chunk_size) == [st EXCEPT !.pos = st.pos + 8 + 4 + chunk_size]

\* the _ arm: file.seek(SeekFrom::Current(chunk_size))
SkipArm(st, chunk_size) == [st EXCEPT !.pos = st.pos + 8 + chunk_size]

\* One iteration of the loop of read_archive_header.
LoaderStep(file, st) ==
    IF Avail(file, st.pos) < 4
    THEN [st EXCEPT !.pc = "returned"]                 \* UnexpectedEof => break
    ELSE IF Avail(file, st.pos + 4) < 4
    THEN LoadPanic(st, "unwrap: chunk_size")
    ELSE LET chunk_id == ChunkIdAt(file, st.pos)
             compressed == CompressedAt(file, st.pos)
             chunk_size == U32At(file, st.pos + 4)
         IN  IF chunk_id \in TableIds THEN TableArm(file, st, chunk_size, compressed)
             ELSE IF chunk_id \in MetadataIds
             THEN MetadataArm(file, st, chunk_size, compressed)
             ELSE SkipArm(st, chunk_size)

\* faulty variant: a header returned only when a root path was found as well
LoaderResultNeedsRoot(archive_file_name, st) ==
    IF st.file_descriptors.some /\ st.root_path # <<>>
    THEN Some([archive_path |-> archive_file_name, output_root_path |-> st.root_path,
               files |-> st.file_descriptors.val])
    ELSE NoneV

\* the value read_archive_header returns once the loop has ended
LoaderResult(archive_file_name, st) ==
    IF st.file_descriptors.some
    THEN Some([archive_path |-> archive_file_name, output_root_path |-> st.root_path,
               files |-> st.file_descriptors.val])
    ELSE NoneV

RECURSIVE LoaderRun(_, _)
LoaderRun(file, st) ==
    IF st.pc # "loop" THEN st ELSE LoaderRun(file, LoaderStep(file, st))

\* read_archive_header: [ok, header]; ok = FALSE stands for a panic
read_archive_header(archive_file_name, file) ==
    LET st == LoaderRun(file, LoaderInit)
    IN  [ok |-> st.pc = "returned", header |-> LoaderResult(archive_file_name, st)]

-----------------------------------------------------------------------------
(* Archive files: the chunk layout read above, written out                 *)

IdBytes(id, compressed) ==
    <<id % 256, (id \div 256) % 256, (id \div 65536) % 256,
      ((id \div 16777216) % 128) + (IF compressed THEN 128 ELSE 0)>>

\* a chunk [id, compressed, payload]: payload is the decoded payload
EncodeChunk(c) ==
    LET body == IF c.compressed
                THEN LE32(Len(c.payload)) \o Lh1Encode(c.payload)
                ELSE c.payload
    IN  IdBytes(c.id, c.compressed) \o LE32(Len(body)) \o body

EncodeArchive(chunks) == Concat([i \in 1..Len(chunks) |-> EncodeChunk(chunks[i])])

-----------------------------------------------------------------------------
(* main.rs: paths.  A PathBuf is modelled by its sequence of components;   *)
(* names and root paths are relative, with 47 ("/") as the separator.      *)

\* Path::components of a relative path: split at the separator, empty parts dropped
RECURSIVE Components(_)
Components(str) ==
    IF str = <<>> THEN <<>>
    ELSE IF \E i \in 1..Len(str) : str[i] = 47
    THEN LET sep == CHOOSE i \in 1..Len(str) : str[i] = 47 /\ \A j \in 1..(i - 1) : str[j] # 47
             first == SubSeq(str, 1, sep - 1)
             rest == Components(SubSeq(str, sep + 1, Len(str)))
         IN  IF first = <<>> THEN rest ELSE <<first>> \o rest
    ELSE <<str>>

\* [a, b, ..].iter().collect::<PathBuf>(): every part pushed onto an empty path
PathCollect(parts) == Concat([i \in 1..Len(parts) |-> Components(parts[i])])

\* Path::parent: None for the empty path
PathParent(path) ==
    IF path = <<>> THEN NoneV ELSE Some(SubSeq(path, 1, Len(path) - 1))

\* Ord for byte strings and for paths: lexicographic
BytesLess(a, b) ==
    \E k \in 1..(Min(Len(a), Len(b)) + 1) :
        /\ \A j \in 1..(k - 1) : a[j] = b[j]
        /\ \/ k > Len(a) /\ k <= Len(b)
           \/ k <= Len(a) /\ k <= Len(b) /\ a[k] < b[k]

PathLess(a, b) ==
    \E k \in 1..(Min(Len(a), Len(b)) + 1) :
        /\ \A j \in 1..(k - 1) : a[j] = b[j]
        /\ \/ k > Len(a) /\ k <= Len(b)
           \/ k <= Len(a) /\ k <= Len(b) /\ BytesLess(a[k], b[k])

\* faulty variant: the vector in descending order
RECURSIVE SortPathsDescending(_)
SortPathsDescending(S) ==
    IF S = {} THEN <<>>
    ELSE LET greatest == CHOOSE x \in S : \A y \in S \ {x} : PathLess(y, x)
         IN  <<greatest>> \o SortPathsDescending(S \ {greatest})

\* dirs.sort()
RECURSIVE SortPaths(_)
SortPaths(S) ==
    IF S = {} THEN <<>>
    ELSE LET least == CHOOSE x \in S : \A y \in S \ {x} : PathLess(x, y)
         IN  <<least>> \o SortPaths(S \ {least})

-----------------------------------------------------------------------------
(* main.rs: read_headers and the merge                                     *)

\* faulty variant: the results taken in the order in which the tasks completed
CollectAsCompleted(outputs, order) == [k \in 1..Len(order) |-> outputs[order[k]]]

\* join_all(archive_tasks).await: the outputs in the order of the tasks
JoinAll(outputs, order) == [k \in 1..Len(outputs) |-> outputs[k]]

\* read_headers, sequential = true: the headers pushed in the order of files
SequentialHeaders(paths, read) == [i \in 1..Len(paths) |-> read[paths[i]].header]

ShortArchiveHeader(archive_header) ==
    [archive_path |-> archive_header.archive_path,
     output_root_path |-> archive_header.output_root_path]

\* faulty variant: an entry that is already in the table is kept
InsertIfAbsent(table, file_name, entry) ==
    IF file_name \in DOMAIN table THEN table ELSE MapInsert(table, file_name, entry)

\* files_and_dirs.insert(file_name, (short_archive_header.clone(), desc))
MergeInsert(table, file_name, entry) == MapInsert(table, file_name, entry)

\* the inner loop over archive_header.files (the keys are distinct, so the
\* order of the iteration does not matter)
RECURSIVE MergeFiles(_, _, _)
MergeFiles(table, archive_header, names) ==
    IF names = {} THEN table
    ELSE LET file_name == CHOOSE n \in names : TRUE
             entry == [archive |-> ShortArchiveHeader(archive_header),
                       desc |-> archive_header.files[file_name]]
         IN  MergeFiles(MergeInsert(table, file_name, entry), archive_header,
                        names \ {file_name})

\* the outer loop over the headers that are Some, from index i on
RECURSIVE MergeHeadersFrom(_, _, _)
MergeHeadersFrom(table, headers, i) ==
    IF i > Len(headers) THEN table
    ELSE IF headers[i].some
    THEN MergeHeadersFrom(
             MergeFiles(table, headers[i].val, DOMAIN headers[i].val.files),
             headers, i + 1)
    ELSE MergeHeadersFrom(table, headers, i + 1)

-----------------------------------------------------------------------------
(* main.rs: create_directory_structure                                     *)

EntryPath(entry) == PathCollect(<<entry.archive.output_root_path, entry.desc.name>>)

\* faulty variant: the path of the entry itself for files as for placeholders
EntryDirOfPath(file_name, entry) ==
    PathCollect(<<entry.archive.output_root_path, file_name>>)

\* the directory an entry asks for: its own path for a placeholder, else the parent
EntryDir(file_name, entry) ==
    LET path == PathCollect(<<entry.archive.output_root_path, file_name>>)
    IN  IF entry.desc.real_size = 0 THEN path
        ELSE IF PathParent(path).some THEN PathParent(path).val ELSE <<>>

\* faulty variant: the directory itself is not pushed, only its parents
ProperAncestors(dir) == {SubSeq(dir, 1, k) : k \in 0..(Len(dir) - 1)}

\* the vector parents: the directory and all its ancestors
Ancestors(dir) == {SubSeq(dir, 1, k) : k \in 0..Len(dir)}

\* the sorted vector dirs
DirsToCreate(table) ==
    SortPaths(UNION {Ancestors(EntryDir(n, table[n])) : n \in DOMAIN table})

-----------------------------------------------------------------------------
(* main.rs: unpack_file                                                    *)

\* minilzo_rs, an external collaborator: modelled as a length-prefixed
\* byte-wise code
LzoCompress(data) == <<Len(data)>> \o [i \in 1..Len(data) |-> (data[i] + 3) % 256]

\* LZO::decompress_safe: fails on an invalid stream and on more output than dst_len
LzoDecompressSafe(src, dst_len) ==
    IF src = <<>> \/ src[1] # Len(src) - 1 \/ Len(src) - 1 > dst_len
    THEN [ok |-> FALSE, data |-> <<>>]
    ELSE [ok |-> TRUE, data |-> [i \in 1..(Len(src) - 1) |-> (src[i + 1] + 253) % 256]]

\* crc32fast::hash, an external collaborator: modelled as a 16-bit checksum
RECURSIVE Checksum(_)
Checksum(data) ==
    IF data = <<>> THEN 1
    ELSE (31 * Checksum(SubSeq(data, 1, Len(data) - 1)) + data[Len(data)]) % 65521

\* the payload unpack_file writes: [ok, data, err]; ok = FALSE stands for a panic
UnpackPayload(archive, file_descriptor) ==
    LET offset == file_descriptor.offset
        real_size == file_descriptor.real_size
        compressed_size == file_descriptor.compressed_size
    IN  IF real_size # compressed_size
        THEN IF Avail(archive, offset) < compressed_size
             THEN [ok |-> FALSE, data |-> <<>>, err |-> "unwrap: early eof"]
             ELSE LET res == LzoDecompressSafe(Bytes(archive, offset, compressed_size),
                                               real_size)
                  IN  IF ~res.ok
                      THEN [ok |-> FALSE, data |-> <<>>, err |-> "Valid LZO data"]
                      ELSE IF file_descriptor.crc # Checksum(res.data)
                      THEN [ok |-> FALSE, data |-> <<>>, err |-> "CRCs do not match"]
                      ELSE [ok |-> TRUE, data |-> res.data, err |-> ""]
        ELSE IF Avail(archive, offset) < real_size
             THEN [ok |-> FALSE, data |-> Bytes(archive, offset, Avail(archive, offset)),
                   err |-> "Unexpected End Of File"]
             ELSE [ok |-> TRUE, data |-> Bytes(archive, offset, real_size), err |-> ""]

-----------------------------------------------------------------------------
(* SpecDecoder: read_file_descriptors on payloads of up to MaxRecords      *)
(* records, possibly followed by the first bytes of one more record        *)

MaxRecords == 2

LongName(n) == [i \in 1..n |-> 97]

DecNames ==
    { <<120>>, <<>>, <<255>>,
      LongName(NameBufLen - 1), LongName(NameBufLen), LongName(NameBufLen + 1) }

DecRecords ==
    { FileDescriptor(n, 8, s, s, 0) : n \in DecNames, s \in {0, 2} }

\* a record that needs 19 bytes; the payload may end with a prefix of it
PartialRecord == FileDescriptor(<<121>>, 8, 2, 2, 0)

DecTails == {0, 1, 2, 13, 14, 15, 18}

DecoderIdle ==
    /\ dbuf = <<>>
    /\ dst = DecoderInit
    /\ drecs = <<>>
    /\ dtail = 0
    /\ dn = 0

DecoderStart ==
    /\ drecs \in SeqsUpTo(DecRecords, MaxRecords)
    /\ dtail \in DecTails
    /\ dbuf = EncodeTable(drecs) \o SubSeq(EncodeRecord(PartialRecord), 1, dtail)
    /\ dst = DecoderInit
    /\ dn = 0

\* an iteration that reads a record (or panics reading it)
DecodeRecord ==
    /\ dst.pc = "loop"
    /\ Avail(dbuf, dst.pos) >= 2
    /\ dst' = DecoderStep(dbuf, dst)
    /\ dn' = dn + 1
    /\ UNCHANGED <<dbuf, drecs, dtail, loaderVars, mainVars, poolVars, unpackVars>>

\* the iteration that finds the payload exhausted and returns Ok(file_descriptors)
DecodeEnd ==
    /\ dst.pc = "loop"
    /\ Avail(dbuf, dst.pos) < 2
    /\ dst' = DecoderStep(dbuf, dst)
    /\ dn' = dn + 1
    /\ UNCHANGED <<dbuf, drecs, dtail, loaderVars, mainVars, poolVars, unpackVars>>

-----------------------------------------------------------------------------
(* SpecLoader: read_archive_header on archives of up to MaxChunks chunks,  *)
(* possibly followed by the first bytes of one more chunk                  *)

MaxChunks == 3

\* "[header]\nentry_point = $r$\" followed by the root
MetaEntryText(root) ==
    <<91>> \o SectionHeader \o <<93, 10>> \o KeyEntryPoint
        \o <<32, 61, 32, 36, 114, 36, 92>> \o root

\* "[x]\nentry_point=a": the key outside a header section
MetaNoHeaderText == <<91, 120, 93, 10>> \o KeyEntryPoint \o <<61, 97>>

\* "[header]\nk=v": a header section without the key
MetaNoEntryText == <<91>> \o SectionHeader \o <<93, 10, 107, 61, 118>>

TableChunk(id, compressed, recs) ==
    [id |-> id, compressed |-> compressed, payload |-> EncodeTable(recs),
     kind |-> "table", recs |-> recs, root |-> <<>>]

MetaChunk(id, compressed, text, kind, root) ==
    [id |-> id, compressed |-> compressed, payload |-> text,
     kind |-> kind, recs |-> <<>>, root |-> root]

OtherChunk(id, compressed, payload) ==
    [id |-> id, compressed |-> compressed, payload |-> payload,
     kind |-> "other", recs |-> <<>>, root |-> <<>>]

RecX == FileDescriptor(<<120>>, 8, 2, 2, 0)

RecY == FileDescriptor(<<121>>, 10, 3, 2, 5)

RecDir == FileDescriptor(<<100, 47>>, 0, 0, 0, 0)

LoaderChunks ==
    { TableChunk(1, FALSE, <<RecX>>),
      TableChunk(134, TRUE, <<RecY, RecDir>>),
      TableChunk(1, FALSE, <<>>),
      MetaChunk(666, FALSE, MetaEntryText(<<97>>), "entry", <<97>>),
      MetaChunk(1337, TRUE, MetaEntryText(<<98>>), "entry", <<98>>),
      MetaChunk(666, FALSE, MetaNoHeaderText, "noheader", <<>>),
      MetaChunk(1337, FALSE, MetaNoEntryText, "noentry", <<>>),
      OtherChunk(7, FALSE, <<1, 2, 3>>),
      OtherChunk(7, TRUE, <<4, 5>>) }

\* a chunk that needs 27 bytes; the file may end with a prefix of it
PartialChunk == TableChunk(1, FALSE, <<RecX>>)

LoaderTails == {0, 1, 3, 4, 7, 8, 20}

LoaderIdle ==
    /\ lfile = <<>>
    /\ lst = LoaderInit
    /\ lchunks = <<>>
    /\ ltail = 0
    /\ ln = 0

LoaderStart ==
    /\ lchunks \in SeqsUpTo(LoaderChunks, MaxChunks)
    /\ ltail \in LoaderTails
    /\ lfile = EncodeArchive(lchunks) \o SubSeq(EncodeChunk(PartialChunk), 1, ltail)
    /\ lst = LoaderInit
    /\ ln = 0

LoaderIteration ==
    /\ lst.pc = "loop"
    /\ lst' = LoaderStep(lfile, lst)
    /\ ln' = ln + 1
    /\ UNCHANGED <<lfile, lchunks, ltail, decVars, mainVars, poolVars, unpackVars>>

HeaderReadable == Avail(lfile, lst.pos) >= 8

\* an iteration that takes the 0x1 | 0x86 arm
LoadTableChunk ==
    /\ HeaderReadable
    /\ ChunkIdAt(lfile, lst.pos) \in TableIds
    /\ LoaderIteration

\* an iteration that takes the 666 | 1337 arm
LoadMetadataChunk ==
    /\ HeaderReadable
    /\ ChunkIdAt(lfile, lst.pos) \in MetadataIds
    /\ LoaderIteration

\* an iteration that takes the _ arm
SkipChunk ==
    /\ HeaderReadable
    /\ ChunkIdAt(lfile, lst.pos) \notin TableIds \cup MetadataIds
    /\ LoaderIteration

\* an iteration that reads a chunk id and finds no chunk size
LoadTruncatedHeader ==
    /\ Avail(lfile, lst.pos) \in 4..7
    /\ LoaderIteration

\* the iteration that finds the stream exhausted and returns
LoadEnd ==
    /\ Avail(lfile, lst.pos) < 4
    /\ LoaderIteration

-----------------------------------------------------------------------------
(* Spec: a run of main over up to MaxArchives of the archives below        *)

MaxArchives == 2

NameX == <<120>>

NameDX == <<100, 47, 120>>

NameD == <<100, 47>>

\* the chunk that holds the payloads; its id is not a recognized one
DataChunk(payload) == OtherChunk(0, FALSE, payload)

\* A: no metadata; "d/x" stored, "d/" a directory placeholder
ArchiveA ==
    <<DataChunk(<<1, 2>>),
      TableChunk(1, FALSE, <<FileDescriptor(NameDX, 8, 2, 2, 0),
                             FileDescriptor(NameD, 0, 0, 0, 0)>>)>>

\* B: root "d"; "x" compressed, with the right crc
ArchiveB ==
    <<DataChunk(LzoCompress(<<7, 8, 9>>)),
      MetaChunk(666, FALSE, MetaEntryText(<<100>>), "entry", <<100>>),
      TableChunk(134, TRUE, <<FileDescriptor(NameX, 8, 3, 4, Checksum(<<7, 8, 9>>))>>)>>

\* C: root "c"; "d/x" compressed, with a crc that does not match
ArchiveC ==
    <<DataChunk(LzoCompress(<<5>>)),
      MetaChunk(1337, TRUE, MetaEntryText(<<99>>), "entry", <<99>>),
      TableChunk(1, FALSE, <<FileDescriptor(NameDX, 8, 1, 2, Checksum(<<5>>) + 1)>>)>>

\* D: metadata only, no file table
ArchiveD == <<MetaChunk(666, FALSE, MetaEntryText(<<97>>), "entry", <<97>>)>>

\* E: a metadata chunk without entry_point, then a file table
ArchiveE ==
    <<MetaChunk(1337, FALSE, MetaNoEntryText, "noentry", <<>>),
      TableChunk(1, FALSE, <<FileDescriptor(NameX, 8, 0, 0, 0)>>)>>

\* F: no metadata; "d" stored, at an offset past the end of the archive
ArchiveF ==
    <<DataChunk(<<3, 4>>),
      TableChunk(1, FALSE, <<FileDescriptor(<<100>>, 200, 2, 2, 0)>>)>>

ArchivePaths == {"A", "B", "C", "D", "E", "F"}

ArchiveChunks ==
    [p \in ArchivePaths |->
        CASE p = "A" -> ArchiveA [] p = "B" -> ArchiveB [] p = "C" -> ArchiveC
          [] p = "D" -> ArchiveD [] p = "E" -> ArchiveE [] p = "F" -> ArchiveF]

\* the archive files on disk
FileSystem == [p \in ArchivePaths |-> EncodeArchive(ArchiveChunks[p])]

\* what a call of read_archive_header gives for each archive
Headers == [p \in ArchivePaths |-> read_archive_header(p, FileSystem[p])]

CEILING == 64

\* faulty variant: a JoinSet without a bound
AlwaysAvailable(running) == TRUE

\* the semaphore of the bounded JoinSet: a permit is free
PermitAvailable(running) == running < CEILING

\* faulty variant: no filter, the placeholders are extracted as well
AllEntries(table) == DOMAIN table

\* files_only: the entries of the merged table that are not placeholders
FilesOnly(table) == {n \in DOMAIN table : table[n].desc.real_size # 0}

Running == {n \in DOMAIN task : task[n] = "running"}

\* unpack_file of entry n fails: the destination cannot be opened for writing
\* (it is a directory), or the payload cannot be produced
UnpackFails(n) ==
    LET entry == files_and_dirs[n]
    IN  \/ EntryPath(entry) \in fsDirs
        \/ ~UnpackPayload(FileSystem[entry.archive.archive_path], entry.desc).ok

MainIdle ==
    /\ files = <<>>
    /\ sequential = FALSE
    /\ pc = "idle"
    /\ hdr = <<>>
    /\ slots = <<>>
    /\ completed = <<>>
    /\ archive_headers = <<>>
    /\ files_and_dirs = EmptyMap
    /\ dirs = <<>>
    /\ ndirs = 0
    /\ fsDirs = {}
    /\ task = EmptyMap
    /\ failed = {}

MainStart ==
    /\ files \in SeqsUpTo(ArchivePaths, MaxArchives)
    /\ sequential \in BOOLEAN
    /\ pc = "read_headers"
    /\ hdr = [i \in 1..Len(files) |-> "idle"]
    /\ slots = [i \in 1..Len(files) |-> NoneV]
    /\ completed = <<>>
    /\ archive_headers = <<>>
    /\ files_and_dirs = EmptyMap
    /\ dirs = <<>>
    /\ ndirs = 0
    /\ fsDirs = {}
    /\ task = EmptyMap
    /\ failed = {}

Others == <<decVars, loaderVars, poolVars, unpackVars>>

\* read_headers, sequential = false: one task per archive is spawned
SpawnHeaderTasks ==
    /\ pc = "read_headers"
    /\ ~sequential
    /\ hdr' = [i \in 1..Len(files) |-> "running"]
    /\ pc' = "join_headers"
    /\ UNCHANGED <<files, sequential, slots, completed, archive_headers, files_and_dirs,
                   dirs, ndirs, fsDirs, task, failed, Others>>

\* a header task ends: read_archive_header returned, or panicked
HeaderTaskEnds(i) ==
    /\ hdr[i] = "running"
    /\ IF Headers[files[i]].ok
       THEN /\ hdr' = [hdr EXCEPT ![i] = "done"]
            /\ slots' = [slots EXCEPT ![i] = Headers[files[i]].header]
       ELSE /\ hdr' = [hdr EXCEPT ![i] = "panicked"]
            /\ UNCHANGED slots
    /\ completed' = Append(completed, i)
    /\ UNCHANGED <<files, sequential, pc, archive_headers, files_and_dirs,
                   dirs, ndirs, fsDirs, task, failed, Others>>

\* join_all(..).await, then unwrap of every JoinHandle output
JoinHeaders ==
    /\ pc = "join_headers"
    /\ \A i \in 1..Len(files) : hdr[i] \in {"done", "panicked"}
    /\ IF \E i \in 1..Len(files) : hdr[i] = "panicked"
       THEN pc' = "aborted" /\ UNCHANGED archive_headers
       ELSE pc' = "merge" /\ archive_headers' = JoinAll(slots, completed)
    /\ UNCHANGED <<files, sequential, hdr, slots, completed, files_and_dirs,
                   dirs, ndirs, fsDirs, task, failed, Others>>

\* read_headers, sequential = true: one iteration of the loop over files
ReadNextHeader ==
    /\ pc = "read_headers"
    /\ sequential
    /\ Len(archive_headers) < Len(files)
    /\ LET entry == files[Len(archive_headers) + 1]
       IN  IF Headers[entry].ok
           THEN archive_headers' = Append(archive_headers, Headers[entry].header)
                    /\ UNCHANGED pc
           ELSE pc' = "aborted" /\ UNCHANGED archive_headers
    /\ UNCHANGED <<files, sequential, hdr, slots, completed, files_and_dirs,
                   dirs, ndirs, fsDirs, task, failed, Others>>

\* read_headers, sequential = true: the loop is over
ReadHeadersReturns ==
    /\ pc = "read_headers"
    /\ sequential
    /\ Len(archive_headers) = Len(files)
    /\ pc' = "merge"
    /\ UNCHANGED <<files, sequential, hdr, slots, completed, archive_headers,
                   files_and_dirs, dirs, ndirs, fsDirs, task, failed, Others>>

\* the fold of the headers into files_and_dirs
MergeHeaders ==
    /\ pc = "merge"
    /\ files_and_dirs' = MergeHeadersFrom(EmptyMap, archive_headers, 1)
    /\ pc' = "create_dirs"
    /\ UNCHANGED <<files, sequential, hdr, slots, completed, archive_headers,
                   dirs, ndirs, fsDirs, task, failed, Others>>

\* create_directory_structure: create_dir_all(output_dir), then dirs is built and sorted
CreateOutputDir ==
    /\ pc = "create_dirs"
    /\ fsDirs' = {<<>>}
    /\ dirs' = DirsToCreate(files_and_dirs)
    /\ ndirs' = 0
    /\ pc' = "create_dir"
    /\ UNCHANGED <<files, sequential, hdr, slots, completed, archive_headers,
                   files_and_dirs, task, failed, Others>>

\* create_directory_structure: one create_dir; AlreadyExists is accepted, a
\* missing parent is a panic
CreateDir ==
    /\ pc = "create_dir"
    /\ ndirs < Len(dirs)
    /\ LET dir == dirs[ndirs + 1]
       IN  IF dir \in fsDirs
           THEN UNCHANGED <<fsDirs, pc>>
           ELSE IF PathParent(dir).val \in fsDirs
           THEN fsDirs' = fsDirs \cup {dir} /\ UNCHANGED pc
           ELSE pc' = "aborted" /\ UNCHANGED fsDirs
    /\ ndirs' = ndirs + 1
    /\ UNCHANGED <<files, sequential, hdr, slots, completed, archive_headers,
                   files_and_dirs, dirs, task, failed, Others>>

\* create_directory_structure returns; files_only is formed
DirsCreated ==
    /\ pc = "create_dir"
    /\ ndirs = Len(dirs)
    /\ task' = [n \in FilesOnly(files_and_dirs) |-> "unspawned"]
    /\ pc' = "unpack"
    /\ UNCHANGED <<files, sequential, hdr, slots, completed, archive_headers,
                   files_and_dirs, dirs, ndirs, fsDirs, failed, Others>>

\* parallel: tasks_set.spawn of the next entry of files_only (in any order)
SpawnUnpack(n) ==
    /\ pc = "unpack"
    /\ ~sequential
    /\ task[n] = "unspawned"
    /\ task' = [task EXCEPT ![n] = "queued"]
    /\ UNCHANGED <<files, sequential, pc, hdr, slots, completed, archive_headers,
                   files_and_dirs, dirs, ndirs, fsDirs, failed, Others>>

\* parallel: for_each is over, main goes on to join_next
SpawnDone ==
    /\ pc = "unpack"
    /\ ~sequential
    /\ \A n \in DOMAIN task : task[n] # "unspawned"
    /\ pc' = "join"
    /\ UNCHANGED <<files, sequential, hdr, slots, completed, archive_headers,
                   files_and_dirs, dirs, ndirs, fsDirs, task, failed, Others>>

\* parallel: a spawned task gets a permit and enters unpack_file
AcquirePermit(n) ==
    /\ task[n] = "queued"
    /\ PermitAvailable(Cardinality(Running))
    /\ task' = [task EXCEPT ![n] = "running"]
    /\ UNCHANGED <<files, sequential, pc, hdr, slots, completed, archive_headers,
                   files_and_dirs, dirs, ndirs, fsDirs, failed, Others>>

\* sequential: the loop over files_only calls unpack_file for the next entry
UnpackSequential(n) ==
    /\ pc = "unpack"
    /\ sequential
    /\ Running = {}
    /\ task[n] = "unspawned"
    /\ task' = [task EXCEPT ![n] = "running"]
    /\ UNCHANGED <<files, sequential, pc, hdr, slots, completed, archive_headers,
                   files_and_dirs, dirs, ndirs, fsDirs, failed, Others>>

\* unpack_file returns
UnpackReturns(n) ==
    /\ task[n] = "running"
    /\ ~UnpackFails(n)
    /\ task' = [task EXCEPT ![n] = "finished"]
    /\ UNCHANGED <<files, sequential, pc, hdr, slots, completed, archive_headers,
                   files_and_dirs, dirs, ndirs, fsDirs, failed, Others>>

\* unpack_file panics: in the loop of main that is the end of the run, in a
\* spawned task it ends the task, whose JoinHandle then holds a JoinError
UnpackPanics(n) ==
    /\ task[n] = "running"
    /\ UnpackFails(n)
    /\ task' = [task EXCEPT ![n] = "finished"]
    /\ failed' = failed \cup {n}
    /\ pc' = IF sequential THEN "aborted" ELSE pc
    /\ UNCHANGED <<files, sequential, hdr, slots, completed, archive_headers,
                   files_and_dirs, dirs, ndirs, fsDirs, Others>>

\* parallel: join_next().await.is_some(): the output of a finished task is
\* taken and dropped, be it Ok or a JoinError
JoinNext(n) ==
    /\ pc = "join"
    /\ task[n] = "finished"
    /\ task' = [task EXCEPT ![n] = "joined"]
    /\ UNCHANGED <<files, sequential, pc, hdr, slots, completed, archive_headers,
                   files_and_dirs, dirs, ndirs, fsDirs, failed, Others>>

\* parallel: join_next gives None, main prints "Done"
JoinDone ==
    /\ pc = "join"
    /\ \A n \in DOMAIN task : task[n] = "joined"
    /\ pc' = "done"
    /\ UNCHANGED <<files, sequential, hdr, slots, completed, archive_headers,
                   files_and_dirs, dirs, ndirs, fsDirs, task, failed, Others>>

\* sequential: the loop over files_only is over, main prints "Done"
SequentialDone ==
    /\ pc = "unpack"
    /\ sequential
    /\ \A n \in DOMAIN task : task[n] = "finished"
    /\ pc' = "done"
    /\ UNCHANGED <<files, sequential, hdr, slots, completed, archive_headers,
                   files_and_dirs, dirs, ndirs, fsDirs, task, failed, Others>>

-----------------------------------------------------------------------------
(* SpecPool: the bounded JoinSet with as many and with more tasks than     *)
(* permits; the tasks are counted, not told apart                          *)

PoolExtra == 2

PoolSizes == {PoolExtra, CEILING, CEILING + PoolExtra}

PoolIdle ==
    pool = [entries |-> 0, spawned |-> 0, queued |-> 0, running |-> 0,
            finished |-> 0, joined |-> 0, pc |-> "idle"]

PoolStart ==
    \E n \in PoolSizes :
        pool = [entries |-> n, spawned |-> 0, queued |-> 0, running |-> 0,
                finished |-> 0, joined |-> 0, pc |-> "unpack"]

PoolOthers == <<decVars, loaderVars, mainVars, unpackVars>>

\* tasks_set.spawn of the next entry of files_only
PoolSpawn ==
    /\ pool.pc = "unpack"
    /\ pool.spawned < pool.entries
    /\ pool' = [pool EXCEPT !.spawned = @ + 1, !.queued = @ + 1]
    /\ UNCHANGED PoolOthers

\* for_each is over, main goes on to join_next
PoolSpawnDone ==
    /\ pool.pc = "unpack"
    /\ pool.spawned = pool.entries
    /\ pool' = [pool EXCEPT !.pc = "join"]
    /\ UNCHANGED PoolOthers

\* a spawned task gets a permit and enters unpack_file
PoolAcquire ==
    /\ pool.queued > 0
    /\ PermitAvailable(pool.running)
    /\ pool' = [pool EXCEPT !.queued = @ - 1, !.running = @ + 1]
    /\ UNCHANGED PoolOthers

\* unpack_file returns or panics: the files are closed, the permit is dropped
PoolUnpackEnds ==
    /\ pool.running > 0
    /\ pool' = [pool EXCEPT !.running = @ - 1, !.finished = @ + 1]
    /\ UNCHANGED PoolOthers

\* join_next takes the output of a finished task
PoolJoinNext ==
    /\ pool.pc = "join"
    /\ pool.finished > 0
    /\ pool' = [pool EXCEPT !.finished = @ - 1, !.joined = @ + 1]
    /\ UNCHANGED PoolOthers

\* join_next gives None
PoolJoinDone ==
    /\ pool.pc = "join"
    /\ pool.joined = pool.entries
    /\ pool' = [pool EXCEPT !.pc = "done"]
    /\ UNCHANGED PoolOthers

-----------------------------------------------------------------------------
(* SpecUnpack: unpack_file, one file operation per step, for two tasks     *)
(* that extract entries of the same archive into destinations of their own *)

COPY_BUF == 262144

UTasks == {1, 2}

\* the archive: three stored bytes, then the LZO stream of <<7, 8>>
UnpackArchive == <<1, 2, 3>> \o LzoCompress(<<7, 8>>)

UnpackDescriptors ==
    { FileDescriptor(<<115>>, 0, 3, 3, 0),                       \* stored; the crc is not the one of the bytes
      FileDescriptor(<<101>>, 4, 3, 3, 0),                       \* stored; the archive ends after 2 bytes
      FileDescriptor(<<99>>, 3, 2, 3, Checksum(<<7, 8>>)),       \* compressed
      FileDescriptor(<<98>>, 3, 2, 3, Checksum(<<7, 8>>) + 1),   \* compressed; wrong crc
      FileDescriptor(<<108>>, 3, 4, 3, Checksum(<<7, 8>>)),      \* compressed; decodes to 2 of 4 bytes
      FileDescriptor(<<116>>, 5, 2, 3, 0) }                      \* compressed; the archive ends after 1 byte

NoFile == [exists |-> FALSE, data |-> <<>>]

\* the destination before the run: absent, shorter, longer
DestinationsBefore ==
    { NoFile, [exists |-> TRUE, data |-> <<9>>], [exists |-> TRUE, data |-> <<9, 9, 9, 9, 9>>] }

\* faulty variant: one handle onto the archive, shared by the tasks
SharedHandle(t) == 1

\* each task opens the archive itself: the handle of task t is its own

SourceHandle(t) == t

\* write of bytes at position pos of a file (pos is not past its end)
WriteAt(data, pos, bytes) ==
    [i \in 1..(IF Len(data) > pos + Len(bytes) THEN Len(data) ELSE pos + Len(bytes)) |->
        IF i > pos /\ i <= pos + Len(bytes) THEN bytes[i - pos] ELSE data[i]]

\* File::set_len: the file is truncated, or extended with zero bytes
SetLen(data, size) == [i \in 1..size |-> IF i <= Len(data) THEN data[i] ELSE 0]

\* faulty variant: the checksum is not compared
CrcIgnored(crc, data) == TRUE

\* assert_eq!(file_descriptor.crc, actual_crc)
CrcMatches(crc, data) == crc = Checksum(data)

TaskInit ==
    [pc |-> "open_source", remaining |-> 0, buf |-> <<>>, got |-> <<>>, out |-> <<>>,
     dpos |-> 0, wrote |-> 0, err |-> ""]

UnpackIdle ==
    /\ uarch = <<>>
    /\ udesc = <<>>
    /\ udest0 = <<>>
    /\ udest = <<>>
    /\ upos = <<>>
    /\ ut = <<>>

UnpackStart ==
    /\ uarch = UnpackArchive
    /\ udesc \in [UTasks -> UnpackDescriptors]
    /\ \E before \in DestinationsBefore : udest0 = [t \in UTasks |-> before]
    /\ udest = udest0
    /\ upos = [h \in UTasks |-> 0]
    /\ ut = [t \in UTasks |-> TaskInit]

UnpackOthers == <<decVars, loaderVars, mainVars, poolVars>>

UPanic(t, msg) == ut' = [ut EXCEPT ![t].pc = "panicked", ![t].err = msg]

\* File::options().read(true).write(false).open(archive_path)
UOpenSource(t) ==
    /\ ut[t].pc = "open_source"
    /\ upos' = [upos EXCEPT ![SourceHandle(t)] = 0]
    /\ ut' = [ut EXCEPT ![t].pc = "seek"]
    /\ UNCHANGED <<uarch, udesc, udest0, udest, UnpackOthers>>

\* source_file.seek(SeekFrom::Start(offset))
USeek(t) ==
    /\ ut[t].pc = "seek"
    /\ upos' = [upos EXCEPT ![SourceHandle(t)] = udesc[t].offset]
    /\ ut' = [ut EXCEPT ![t].pc = "open_dest"]
    /\ UNCHANGED <<uarch, udesc, udest0, udest, UnpackOthers>>

\* File::options().write(true).create(true).open(absolute_path): an existing
\* file keeps its content; then the choice of the payload path
UOpenDest(t) ==
    /\ ut[t].pc = "open_dest"
    /\ udest' = [udest EXCEPT ![t].exists = TRUE]
    /\ ut' = IF udesc[t].real_size # udesc[t].compressed_size
             THEN [ut EXCEPT ![t].pc = "read_exact"]
             ELSE [ut EXCEPT ![t].pc = "read", ![t].remaining = udesc[t].real_size]
    /\ UNCHANGED <<uarch, udesc, udest0, upos, UnpackOthers>>

\* compressed path: read_exact of compressed_size bytes
UReadExact(t) ==
    /\ ut[t].pc = "read_exact"
    /\ LET h == SourceHandle(t)
           n == udesc[t].compressed_size
       IN  IF Avail(uarch, upos[h]) < n
           THEN /\ UPanic(t, "unwrap: early eof")
                /\ upos' = [upos EXCEPT ![h] = upos[h] + Avail(uarch, upos[h])]
           ELSE /\ ut' = [ut EXCEPT ![t].pc = "decompress",
                                    ![t].buf = Bytes(uarch, upos[h], n),
                                    ![t].got = Bytes(uarch, upos[h], n)]
                /\ upos' = [upos EXCEPT ![h] = upos[h] + n]
    /\ UNCHANGED <<uarch, udesc, udest0, udest, UnpackOthers>>

\* compressed path: lzo.decompress_safe(buf, real_size).expect("Valid LZO data")
UDecompress(t) ==
    /\ ut[t].pc = "decompress"
    /\ LET res == LzoDecompressSafe(ut[t].buf, udesc[t].real_size)
       IN  IF res.ok
           THEN ut' = [ut EXCEPT ![t].pc = "crc", ![t].out = res.data]
           ELSE UPanic(t, "Valid LZO data")
    /\ UNCHANGED <<uarch, udesc, udest0, udest, upos, UnpackOthers>>

\* compressed path: crc32fast::hash and assert_eq!
UCheckCrc(t) ==
    /\ ut[t].pc = "crc"
    /\ IF CrcMatches(udesc[t].crc, ut[t].out)
       THEN ut' = [ut EXCEPT ![t].pc = "write_all"]
       ELSE UPanic(t, "CRCs do not match")
    /\ UNCHANGED <<uarch, udesc, udest0, udest, upos, UnpackOthers>>

\* compressed path: dest_file.write_all(decompressed_buf)
UWriteAll(t) ==
    /\ ut[t].pc = "write_all"
    /\ udest' = [udest EXCEPT ![t].data = WriteAt(@, ut[t].dpos, ut[t].out)]
    /\ ut' = [ut EXCEPT ![t].pc = "set_len", ![t].dpos = @ + Len(ut[t].out),
                        ![t].wrote = @ + Len(ut[t].out)]
    /\ UNCHANGED <<uarch, udesc, udest0, upos, UnpackOthers>>

\* the byte counts a read of up to to_read bytes can return when avail bytes
\* are left in the file: 0 at the end of the file only
ReadSizes(to_read, avail) == IF avail = 0 THEN {0} ELSE 1..Min(to_read, avail)

\* the byte counts a write of n bytes can return (AsyncWrite::write: how many
\* bytes of the buffer were written)
WriteSizes(n) == 1..n

\* stored path: source_file.read(&mut buf[..to_read]) and the two assertions
URead(t) ==
    /\ ut[t].pc = "read"
    /\ LET h == SourceHandle(t)
           buf_len == Min(COPY_BUF, udesc[t].real_size)
           to_read == Min(buf_len, ut[t].remaining)
       IN  \E read \in ReadSizes(to_read, Avail(uarch, upos[h])) :
              IF read = 0
              THEN UPanic(t, "Unexpected End Of File") /\ UNCHANGED upos
              ELSE /\ ut' = [ut EXCEPT ![t].pc = "write",
                                       ![t].buf = Bytes(uarch, upos[h], read),
                                       ![t].got = @ \o Bytes(uarch, upos[h], read)]
                   /\ upos' = [upos EXCEPT ![h] = upos[h] + read]
    /\ UNCHANGED <<uarch, udesc, udest0, udest, UnpackOthers>>

\* stored path: dest_file.write(&buf[..read]), whose count is not looked at,
\* and remaining_bytes -= read; then the test of the while loop
UWrite(t) ==
    /\ ut[t].pc = "write"
    /\ \E written \in WriteSizes(Len(ut[t].buf)) :
          /\ udest' = [udest EXCEPT ![t].data =
                          WriteAt(@, ut[t].dpos, SubSeq(ut[t].buf, 1, written))]
          /\ ut' = [ut EXCEPT ![t].pc = IF ut[t].remaining = Len(ut[t].buf)
                                        THEN "set_len" ELSE "read",
                              ![t].remaining = @ - Len(ut[t].buf),
                              ![t].dpos = @ + written,
                              ![t].wrote = @ + written]
    /\ UNCHANGED <<uarch, udesc, udest0, upos, UnpackOthers>>

\* dest_file.set_len(real_size); unpack_file returns
USetLen(t) ==
    /\ ut[t].pc = "set_len"
    /\ udest' = [udest EXCEPT ![t].data = SetLen(@, udesc[t].real_size)]
    /\ ut' = [ut EXCEPT ![t].pc = "returned"]
    /\ UNCHANGED <<uarch, udesc, udest0, upos, UnpackOthers>>

-----------------------------------------------------------------------------
(* The specifications                                                      *)

InitDecoder == DecoderStart /\ LoaderIdle /\ MainIdle /\ PoolIdle /\ UnpackIdle

NextDecoder == DecodeRecord \/ DecodeEnd

SpecDecoder == InitDecoder /\ [][NextDecoder]_vars

InitLoader == LoaderStart /\ DecoderIdle /\ MainIdle /\ PoolIdle /\ UnpackIdle

NextLoader ==
    LoadTableChunk \/ LoadMetadataChunk \/ SkipChunk \/ LoadTruncatedHeader \/ LoadEnd

SpecLoader == InitLoader /\ [][NextLoader]_vars

Init == MainStart /\ DecoderIdle /\ LoaderIdle /\ PoolIdle /\ UnpackIdle

Next ==
    \/ SpawnHeaderTasks
    \/ \E i \in 1..Len(files) : HeaderTaskEnds(i)
    \/ JoinHeaders
    \/ ReadNextHeader
    \/ ReadHeadersReturns
    \/ MergeHeaders
    \/ CreateOutputDir
    \/ CreateDir
    \/ DirsCreated
    \/ \E n \in DOMAIN task : SpawnUnpack(n)
    \/ SpawnDone
    \/ \E n \in DOMAIN task : AcquirePermit(n)
    \/ \E n \in DOMAIN task : UnpackSequential(n)
    \/ \E n \in DOMAIN task : UnpackReturns(n)
    \/ \E n \in DOMAIN task : UnpackPanics(n)
    \/ \E n \in DOMAIN task : JoinNext(n)
    \/ JoinDone
    \/ SequentialDone

Spec == Init /\ [][Next]_vars

InitPool == PoolStart /\ DecoderIdle /\ LoaderIdle /\ MainIdle /\ UnpackIdle

NextPool ==
    PoolSpawn \/ PoolSpawnDone \/ PoolAcquire \/ PoolUnpackEnds \/ PoolJoinNext \/ PoolJoinDone

SpecPool == InitPool /\ [][NextPool]_vars

InitUnpack == UnpackStart /\ DecoderIdle /\ LoaderIdle /\ MainIdle /\ PoolIdle

NextUnpack ==
    \E t \in UTasks :
        \/ UOpenSource(t)
        \/ USeek(t)
        \/ UOpenDest(t)
        \/ UReadExact(t)
        \/ UDecompress(t)
        \/ UCheckCrc(t)
        \/ UWriteAll(t)
        \/ URead(t)
        \/ UWrite(t)
        \/ USetLen(t)

SpecUnpack == InitUnpack /\ [][NextUnpack]_vars

-----------------------------------------------------------------------------
(* Properties of main                                                      *)

\* files_and_dirs has been built
AfterMerge ==
    \/ pc \in {"create_dirs", "create_dir", "unpack", "join", "done"}
    \/ pc = "aborted" /\ fsDirs # {}

\* the positions in the input whose archive has a file table that holds name n
Defining(n) ==
    {i \in 1..Len(files) :
        Headers[files[i]].header.some /\ n \in DOMAIN Headers[files[i]].header.val.files}

SetMax(S) == CHOOSE x \in S : \A y \in S : y <= x

\* C1: after the merge the table holds, for every name defined by some archive,
\* the descriptor and the archive identity (archive_path, output_root_path) of
\* the last archive in input order that defines the name, both from that same
\* archive: A then C gives C's entry for "d/x", C then A gives A's.
C1_MergeFollowsInputOrder ==
    AfterMerge =>
        /\ DOMAIN files_and_dirs = {n \in {NameX, NameDX, NameD, <<100>>} : Defining(n) # {}}
        /\ \A n \in DOMAIN files_and_dirs :
              LET last == Headers[files[SetMax(Defining(n))]].header.val
              IN  /\ files_and_dirs[n].desc = last.files[n]
                  /\ files_and_dirs[n].archive.archive_path = last.archive_path
                  /\ files_and_dirs[n].archive.output_root_path = last.output_root_path
        /\ files = <<"A", "C">> =>
              /\ files_and_dirs[NameDX].archive = [archive_path |-> "C", output_root_path |-> <<99>>]
              /\ files_and_dirs[NameDX].desc.real_size = 1
        /\ files = <<"C", "A">> =>
              /\ files_and_dirs[NameDX].archive = [archive_path |-> "A", output_root_path |-> <<>>]
              /\ files_and_dirs[NameDX].desc.real_size = 2

\* C1 witness: C after A has overridden "d/x", the other entry of A is kept
C1_Witness ==
    /\ AfterMerge
    /\ files = <<"A", "C">>
    /\ files_and_dirs[NameDX].archive.archive_path = "C"
    /\ files_and_dirs[NameD].archive.archive_path = "A"

\* C2: in whatever order the header tasks complete, read_headers returns the
\* results in input order, so the vector and the merged table are the ones the
\* sequential loop gives for the same list of archives.
C2_ParallelEqualsSequential ==
    /\ pc \in {"merge", "create_dirs", "create_dir", "unpack", "join", "done"} =>
          archive_headers = SequentialHeaders(files, Headers)
    /\ AfterMerge =>
          files_and_dirs = MergeHeadersFrom(EmptyMap, SequentialHeaders(files, Headers), 1)

\* C2 witness: a parallel run in which the task of the second archive completed
\* first and the second archive overrides an entry of the first
C2_Witness ==
    /\ ~sequential
    /\ files = <<"A", "C">>
    /\ completed = <<2, 1>>
    /\ pc = "create_dirs"
    /\ files_and_dirs[NameDX].archive.archive_path = "C"

\* C3: a run in which an extraction task hit a fatal condition does not reach
\* its normal completion ("Done"), in parallel mode as in sequential mode.
C3_FatalErrorAbortsRun == pc = "done" => failed = {}

\* C5: no two extraction workers write to the same destination path: the
\* entries being extracted at the same time have distinct paths
\* output_root_path/name below the output directory.
C5_NoTwoWorkersSameDestination ==
    \A n, m \in Running :
        n # m => EntryPath(files_and_dirs[n]) # EntryPath(files_and_dirs[m])

\* C6: once an extraction task exists, create_directory_structure has finished
\* and the parent directory of the destination of every extracted entry exists.
C6_DirectoriesBeforeExtraction ==
    (\E n \in DOMAIN task : task[n] # "unspawned") =>
        /\ pc \in {"unpack", "join", "done", "aborted"}
        /\ ndirs = Len(dirs)
        /\ \A n \in FilesOnly(files_and_dirs) :
              LET path == EntryPath(files_and_dirs[n])
              IN  path # <<>> /\ SubSeq(path, 1, Len(path) - 1) \in fsDirs

\* C6 witness: unpack_file runs for "d/x" of archive C, whose destination is c/d/x
C6_Witness ==
    /\ NameDX \in DOMAIN task
    /\ task[NameDX] = "running"
    /\ files_and_dirs[NameDX].archive.output_root_path = <<99>>
    /\ <<<<99>>, <<100>>>> \in fsDirs

-----------------------------------------------------------------------------
(* Properties of the bounded JoinSet                                       *)

\* C4: at most 64 extraction tasks are inside unpack_file at any time, also
\* when there are more than 64 entries.
C4_ConcurrencyCeiling == pool.running <= 64

\* C4 witness: more entries than permits, all permits taken, tasks waiting
C4_Witness ==
    /\ pool.entries > 64
    /\ pool.running = 64
    /\ pool.queued > 0

-----------------------------------------------------------------------------
(* Properties of the Archive Header Loader and its decoders                *)

\* the value returned by the load of lfile, once it has returned
LoaderReturned == LoaderResult("archive", lst)

\* the records of all file-table chunks of the archive, in order
AllRecords == Concat([i \in 1..Len(lchunks) |-> lchunks[i].recs])

\* C7: read_archive_header returns Some exactly when a file-table chunk (id 0x1
\* or 0x86) was decoded before the stream was exhausted, whatever the order and
\* number of chunks, and a table once held is never lost again.
C7_SomeIffTableSeen ==
    /\ [](lst.pc = "returned" =>
            /\ ln = Len(lchunks) + 1
            /\ LoaderReturned.some <=> \E i \in 1..Len(lchunks) : lchunks[i].id \in {1, 134})
    /\ [][lst.file_descriptors.some => lst'.file_descriptors.some]_vars

\* C7 witness: a table chunk followed by a metadata chunk and by a skipped chunk
C7_Witness ==
    /\ lst.pc = "returned"
    /\ LoaderReturned.some
    /\ Len(lchunks) = 3
    /\ lchunks[1].kind = "table"
    /\ lchunks[2].kind = "entry"
    /\ lchunks[3].kind = "other"

\* an archive whose chunks are all complete and whose record names are all distinct
ValidArchive ==
    /\ ltail = 0
    /\ \A i, j \in 1..Len(AllRecords) : i # j => AllRecords[i].name # AllRecords[j].name

\* C8: for a valid archive the table of the returned header has as many entries
\* as there are file-table records in all the file-table chunks of the archive.
C8_TableSizeIsRecordCount ==
    (lst.pc = "returned" /\ ValidArchive /\ LoaderReturned.some)
        => Cardinality(DOMAIN LoaderReturned.val.files) = Len(AllRecords)

\* C9: a record whose name is 520 bytes long is accepted and yields a descriptor,
\* a record whose name is 521 bytes or longer is rejected as fatal.
C9_NameLengthBoundary ==
    (dn \in 1..Len(drecs) /\ ~DecodeText(drecs[dn].name).had_errors) =>
        /\ Len(drecs[dn].name) = 520 =>
              dst.pc = "loop" /\ drecs[dn].name \in DOMAIN dst.files
        /\ Len(drecs[dn].name) >= 521 => dst.pc = "panic"

\* the chunk the last iteration dispatched is a metadata chunk without a header
\* section, or without an entry_point key inside its header section
MetadataWithoutEntryPoint ==
    /\ ln \in 1..Len(lchunks)
    /\ lchunks[ln].id \in {666, 1337}
    /\ lchunks[ln].kind \in {"noheader", "noentry"}

ExpectEntryPoint == "[header].entry_point must be specified in header chunk when it exists"

C11_TruncationIsFatal == lst.pc = "returned" => ltail = 0

\* the position in lfile at which chunk k of lchunks starts
ChunkStart(k) == Len(EncodeArchive(SubSeq(lchunks, 1, k - 1)))

\* the chunk under the read position is an unrecognized chunk with flag c
SkipsChunk(c) ==
    /\ lst.pc = "loop"
    /\ ln < Len(lchunks)
    /\ lchunks[ln + 1].kind = "other"
    /\ lchunks[ln + 1].compressed = c

\* the on-disk payload length L of the chunk under the read position
OnDiskLength == U32At(lfile, lst.pos + 4)

\* the skipped chunk changes neither the table nor the root path, and the next
\* read is at the header of the following chunk
SkipIsInert ==
    /\ lst'.pc = "loop"
    /\ lst'.pos = ChunkStart(ln + 2)
    /\ lst'.file_descriptors = lst.file_descriptors
    /\ lst'.root_path = lst.root_path

\* C20 as stated: the position advances by L bytes after the compressed-length
\* prefix has been consumed when the flag is set, and by L bytes otherwise.
C20_SkipAfterPrefix ==
    [][/\ SkipsChunk(TRUE) => lst'.pos = lst.pos + 8 + 4 + OnDiskLength /\ SkipIsInert
       /\ SkipsChunk(FALSE) => lst'.pos = lst.pos + 8 + OnDiskLength /\ SkipIsInert]_vars

\* C20 amended: the position advances by exactly L bytes from the end of the
\* chunk header whether or not the flag is set (no prefix is read), which is
\* the header of the following chunk; table and root path are unchanged.
C20_SkipAdvancesByL ==
    [][\A c \in BOOLEAN :
          SkipsChunk(c) => lst'.pos = lst.pos + 8 + OnDiskLength /\ SkipIsInert]_vars

\* C20 witness: a compressed unrecognized chunk was skipped and the file table
\* that follows it was decoded
C20_Witness ==
    /\ Len(lchunks) >= 2
    /\ lchunks[1].kind = "other" /\ lchunks[1].compressed
    /\ lchunks[2].kind = "table" /\ lchunks[2].recs # <<>>
    /\ ln = 2
    /\ lst.pc = "loop"
    /\ lst.file_descriptors.some
    /\ lst.pos = ChunkStart(3)

\* the root of the last metadata chunk among the first k chunks, else empty
RECURSIVE LastRoot(_)
LastRoot(k) ==
    IF k = 0 THEN <<>>
    ELSE IF lchunks[k].id \in {666, 1337} THEN lchunks[k].root
    ELSE LastRoot(k - 1)

\* C19: the root path is the one of the last metadata chunk decoded so far
\* (empty before the first), the returned header carries the one of the last
\* metadata chunk of the stream, and only metadata chunks change it.
C19_RootOfLastMetadataChunk ==
    /\ [](lst.pc \in {"loop", "returned"} =>
            /\ lst.root_path = LastRoot(Min(ln, Len(lchunks)))
            /\ (lst.pc = "returned" /\ LoaderReturned.some) =>
                  LoaderReturned.val.output_root_path = LastRoot(Len(lchunks)))
    /\ [][(lst.pc = "loop" /\ ln < Len(lchunks) /\ lchunks[ln + 1].id \notin {666, 1337})
             => lst'.root_path = lst.root_path]_vars

\* C19 witness: two metadata chunks with different roots around a file table;
\* the header returned carries the root of the second
C19_Witness ==
    /\ lst.pc = "returned"
    /\ Len(lchunks) = 3
    /\ lchunks[1].kind = "entry" /\ lchunks[1].root = <<97>>
    /\ lchunks[2].kind = "table"
    /\ lchunks[3].kind = "entry" /\ lchunks[3].root = <<98>>
    /\ LoaderReturned.val.output_root_path = <<98>>

-----------------------------------------------------------------------------
(* Properties of create_directory_structure and of the extraction          *)

\* create_directory_structure has returned
DirectoriesDone == pc \in {"unpack", "join", "done"} \/ (pc = "aborted" /\ DOMAIN task # {})

\* the directory a merged entry stands for: its path for a placeholder, the
\* parent of its path for a file
WantedDir(n) ==
    LET path == Components(files_and_dirs[n].archive.output_root_path)
                    \o Components(files_and_dirs[n].desc.name)
    IN  IF files_and_dirs[n].desc.real_size = 0 \/ path = <<>> THEN path
        ELSE SubSeq(path, 1, Len(path) - 1)

\* the set the claim describes: the wanted directories and all their ancestors
AncestorClosure ==
    UNION {{SubSeq(WantedDir(n), 1, k) : k \in 0..Len(WantedDir(n))} :
              n \in DOMAIN files_and_dirs}

\* C12: once create_directory_structure has returned, the directories it has
\* passed to create_dir are exactly the wanted directories and all their
\* ancestors, each of them once, and they all exist below the output root
\* (which exists in any case); archive C alone ("c" + "d/x") gives exactly
\* {"", "c", "c/d"}.
C12_DirectoryReconstruction ==
    DirectoriesDone =>
        /\ ndirs = Len(dirs)
        /\ {dirs[i] : i \in 1..Len(dirs)} = AncestorClosure
        /\ fsDirs = AncestorClosure \cup {<<>>}
        /\ \A i, j \in 1..Len(dirs) : i # j => dirs[i] # dirs[j]
        /\ files = <<"C">> => fsDirs = {<<>>, <<<<99>>>>, <<<<99>>, <<100>>>>}
        /\ files = <<"A">> => fsDirs = {<<>>, <<<<100>>>>}

\* C12 witness: A then B: "d" is derived from the file d/x and the placeholder
\* d/ of A and from the file x of B (root d), and is in the list once
C12_Witness ==
    /\ DirectoriesDone
    /\ files = <<"A", "B">>
    /\ Cardinality(DOMAIN files_and_dirs) = 3
    /\ \A n \in DOMAIN files_and_dirs : WantedDir(n) = <<<<100>>>>
    /\ dirs = << <<>>, <<<<100>>>> >>

\* how far the extraction of an entry has come
Progress(status) ==
    CASE status = "unspawned" -> 0 [] status = "queued" -> 1 [] status = "running" -> 2
      [] status = "finished" -> 3 [] status = "joined" -> 4

\* C17: there is an extraction task for exactly the merged entries with
\* real_size # 0, unpack_file is entered once for each (a task never runs
\* again and ends only by having run), and when the run is done every one
\* of them has ended.
C17_ExtractionCoversRealFiles ==
    /\ [](DirectoriesDone =>
            DOMAIN task = {n \in DOMAIN files_and_dirs : files_and_dirs[n].desc.real_size # 0})
    /\ [](pc = "done" => \A n \in DOMAIN task : task[n] \in {"finished", "joined"})
    /\ [][\A n \in DOMAIN task :
             /\ n \in DOMAIN task'
             /\ Progress(task'[n]) >= Progress(task[n])
             /\ (task'[n] = "running" /\ task[n] # "running") =>
                    task[n] = IF sequential THEN "unspawned" ELSE "queued"
             /\ (Progress(task'[n]) > 2 /\ Progress(task[n]) <= 2) => task[n] = "running"]_vars

\* C17 witness: A alone, in parallel mode: the run is done, the file d/x was
\* extracted, the placeholder d/ never had a task
C17_Witness ==
    /\ pc = "done"
    /\ ~sequential
    /\ files = <<"A">>
    /\ NameD \in DOMAIN files_and_dirs
    /\ DOMAIN task = {NameDX}
    /\ task[NameDX] = "joined"

\* C16: the tasks submitted to the pool and not yet finished are never more
\* than the ceiling: a further submission waits until one of them has finished.
C16_SubmissionBackPressures == pool.queued + pool.running <= 64

-----------------------------------------------------------------------------
(* Properties of unpack_file                                               *)

Stored(t) == udesc[t].real_size = udesc[t].compressed_size

\* the archive bytes [offset, offset + real_size) of a stored entry
StoredPayload(t) == Bytes(uarch, udesc[t].offset, udesc[t].real_size)

\* C13: when unpack_file returns for a stored entry, real_size bytes have been
\* written and the destination holds the archive bytes [offset, offset +
\* real_size), whatever the reads and writes returned, in pieces of at most
\* 256 KiB; the end of the archive before that is a failure.
C13_StoredCopyExact ==
    \A t \in UTasks :
        Stored(t) =>
            /\ Len(ut[t].buf) <= 262144
            /\ ut[t].pc = "returned" =>
                  /\ ut[t].wrote = udesc[t].real_size
                  /\ udest[t].data = StoredPayload(t)
            /\ Avail(uarch, udesc[t].offset) < udesc[t].real_size => ut[t].pc # "returned"

\* what the first extraction into an empty output directory leaves
FreshOutput(t) ==
    SetLen(IF Stored(t) THEN StoredPayload(t)
           ELSE LzoDecompressSafe(Bytes(uarch, udesc[t].offset, udesc[t].compressed_size),
                                  udesc[t].real_size).data,
           udesc[t].real_size)

\* C14: after a successful unpack_file the destination is real_size bytes long
\* and holds what the extraction into an empty directory gives, whether it
\* did not exist before, or existed with shorter or longer content.
C14_ExtractionIdempotent ==
    \A t \in UTasks :
        ut[t].pc = "returned" =>
            /\ Len(udest[t].data) = udesc[t].real_size
            /\ udest[t].data = FreshOutput(t)

\* C15: what a task has read is the archive from the offset of its own
\* descriptor on, its handle stands right behind these bytes whatever the other
\* task does, and the archive is never written.
C15_OwnReadHandle ==
    /\ [](\A t \in UTasks :
            /\ ut[t].got = Bytes(uarch, udesc[t].offset, Len(ut[t].got))
            /\ ut[t].pc \in {"open_dest", "read_exact", "read", "write", "decompress",
                             "crc", "write_all", "set_len", "returned"} =>
                  upos[t] = udesc[t].offset + Len(ut[t].got))
    /\ [][uarch' = uarch]_vars

\* C15 witness: the two tasks read at different offsets at the same time
C15_Witness ==
    /\ udesc[1].offset = 0 /\ udesc[2].offset = 3
    /\ ut[1].pc = "write" /\ ut[1].got = <<1>>
    /\ ut[2].pc = "decompress" /\ ut[2].got = LzoCompress(<<7, 8>>)
    /\ upos = <<1, 6>>

\* C18: the payload path is chosen by real_size # compressed_size alone; on the
\* compressed path nothing is written before the checksum of the decompressed
\* bytes was found equal to crc, and nothing at all on a mismatch; on the
\* stored path crc is never consulted.
C18_ChecksumAsymmetry ==
    \A t \in UTasks :
        /\ ut[t].pc \in {"read_exact", "decompress", "crc", "write_all"} => ~Stored(t)
        /\ ut[t].pc \in {"read", "write"} => Stored(t)
        /\ (~Stored(t) /\ ut[t].wrote > 0) =>
              /\ udesc[t].crc = Checksum(ut[t].out)
              /\ ut[t].pc \in {"set_len", "returned"}
        /\ (~Stored(t) /\ ut[t].out # <<>> /\ udesc[t].crc # Checksum(ut[t].out)) =>
              /\ ut[t].pc \in {"crc", "panicked"}
              /\ ut[t].wrote = 0
              /\ udest[t].data = udest0[t].data
        /\ Stored(t) => ut[t].err # "CRCs do not match"

\* C18 witness: a stored entry with a wrong crc was extracted, while the
\* compressed entry with a wrong crc failed with nothing written
C18_Witness ==
    /\ ut[1].pc = "returned" /\ Stored(1)
    /\ udesc[1].crc # Checksum(StoredPayload(1))
    /\ udest[1].data = StoredPayload(1)
    /\ ~Stored(2) /\ ut[2].pc = "panicked" /\ ut[2].err = "CRCs do not match"
    /\ udest[2].data = udest0[2].data

-----------------------------------------------------------------------------
(* Properties of the order of the create_dir calls                         *)

\* create_directory_structure has failed in create_dir (the other failures of
\* a run come before any directory exists, or leave a failed extraction)
CreateDirFailed == pc = "aborted" /\ fsDirs # {} /\ failed = {} /\ DOMAIN task = {}

\* C21: the create_dir calls are issued in sorted path order, the parent of
\* every directory of the list stands before it in the list, it exists when
\* the create_dir of the directory is issued, and no create_dir fails for a
\* missing parent.
C21_ParentsFirst ==
    /\ \A i, j \in 1..Len(dirs) : i < j => PathLess(dirs[i], dirs[j])
    /\ \A j \in 1..Len(dirs) :
          dirs[j] # <<>> =>
              \E i \in 1..(j - 1) : dirs[i] = SubSeq(dirs[j], 1, Len(dirs[j]) - 1)
    /\ (pc = "create_dir" /\ ndirs < Len(dirs) /\ dirs[ndirs + 1] # <<>>) =>
          SubSeq(dirs[ndirs + 1], 1, Len(dirs[ndirs + 1]) - 1) \in fsDirs
    /\ \A i \in 1..ndirs : dirs[i] \in fsDirs
    /\ ~CreateDirFailed

\* C21 witness: A and C: c, then c/d, then d were created below the output root
C21_Witness ==
    /\ pc = "create_dir"
    /\ dirs = << <<>>, <<<<99>>>>, <<<<99>>, <<100>>>>, <<<<100>>>> >>
    /\ ndirs = 4
    /\ fsDirs = {<<>>, <<<<99>>>>, <<<<99>>, <<100>>>>, <<<<100>>>>}

====
